---- MODULE Spec2Model ----
(***************************************************************************)
(* Model of the cluster relay of lib/primus-cluster.js.                    *)
(*                                                                         *)
(* Every node is one PrimusCluster instance attached to its own host       *)
(* (primus) object.  JavaScript runs one event at a time, so every action  *)
(* below is one turn of a node's event loop: the synchronous body of a     *)
(* call made by the host application or of a callback.  Asynchronous       *)
(* continuations (the encoder's and the decoder's callbacks, the           *)
(* subscriber's 'message' event) are turns of their own, taken from the    *)
(* queues `encoding` and `inbox`.  The states of the model are the states  *)
(* between two turns.                                                      *)
(*                                                                         *)
(* The synchronous code of a turn is written as operators over a record    *)
(* s = [silent, encoding, fx, thrown]:                                     *)
(*   silent    this.silent                                                 *)
(*   encoding  the encoder calls whose callback has not run yet            *)
(*   fx        the calls the turn has made so far, in order                *)
(*   thrown    an exception is propagating: the rest of the code is        *)
(*             skipped                                                     *)
(***************************************************************************)
EXTENDS Integers, Sequences, FiniteSets, TLC

\* ---------------------------------------------------------------- bounds
MaxInputs == 2     \* local calls, foreign payloads and host events, together
MaxStack == 4      \* call depth at which the engine raises RangeError
MaxListeners == 1  \* 'error' listeners the host may have registered

\* The cluster: node 1 runs on a host that has write and send, node 2 on a
\* host that has write only (see Host).
Nodes == {1, 2}

\* ------------------------------------------------------------ vocabulary
Methods == {"write", "send"}
DirectType == "primus"
RoomType == "room"
Undefined == "undefined"
DefaultChannel == "primus"

\* A payload value the host's encoder cannot serialise (for JSON: a
\* circular structure).
Circular == "circular"
ArgValues == {"hello", Circular}

\* The room message the adapter publishes.
RoomNames == {"lobby", "vip"}
RoomOpts == [rooms |-> <<"lobby", "vip">>, method |-> "emit", to |-> "spark1",
             except |-> <<"spark2">>]

\* The keys of this.clients, in the order initializeClients creates them.
ClientNames == <<"pub", "sub", "storage">>

\* An error a client reports.
ClientErrors == {"ECONNRESET"}

\* The id of a publisher that is not a node of this cluster.
ForeignId == Cardinality(Nodes) + 1

VARIABLES
  id,        \* this.id
  channel,   \* this.channel
  silent,    \* this.silent
  primus,    \* the method slots of this.primus: write, send, __original*
  encoding,  \* messages handed to primus.encoder, callback pending
  inbox,     \* payloads the transport delivered to clients.sub, event pending
  calls,     \* number of local broadcast calls made so far
  written,   \* written[a]: payloads node a has put on the channel
  replayed,  \* replayed[n][a]: replay handler runs on n for messages of node a
  foreign,   \* number of foreign payloads injected so far
  quits,     \* quits[n][c]: calls of quit on the client c of this.clients
  events,    \* number of 'close' and client 'error' events so far
  deferred   \* deferred[n]: callbacks a replayed operation left for later

hostVars == <<quits, events, deferred>>

vars == <<id, channel, silent, primus, encoding, inbox,
          calls, written, replayed, foreign, quits, events, deferred>>

\* ------------------------------------------------------- the host object
OriginalName(method) == "__original" \o method

SlotNames == Methods \cup {OriginalName(m) : m \in Methods}

NoSlot == [kind |-> "none", method |-> Undefined]
Native(method) == [kind |-> "native", method |-> method]
Wrapper(method) == [kind |-> "wrapper", method |-> method]

\* A host object before the plugin is attached: `has` are the entry points
\* it exposes.
BareHost(has) ==
  [name \in SlotNames |-> IF name \in has THEN Native(name) ELSE NoSlot]

\* The hosts of the model: with and without the plugin that adds send.
Host(n) == IF n % 2 = 1 THEN {"write", "send"} ELSE {"write"}

\* wrapMethod (one element of the forEach).
wrapMethod(host, method) ==
  IF host[method].kind = "none" THEN host
  ELSE [host EXCEPT ![OriginalName(method)] = host[method],
                    ![method] = Wrapper(method)]

wrapPrimusMethods(host) == wrapMethod(wrapMethod(host, "write"), "send")

\* ------------------------------------------------------ encoder, decoder
\* The arguments object of a call and its encoded form are keyed 0..n-1.
ArgumentsObject(args) == [i \in 0..(Len(args) - 1) |-> args[i + 1]]

\* _.toArray
toArray(obj) ==
  LET n == Cardinality(DOMAIN obj)
  IN  IF DOMAIN obj = 1..n THEN obj ELSE [i \in 1..n |-> obj[i - 1]]

Encodable(message) ==
  \A i \in DOMAIN message.data : message.data[i] # Circular

\* primus.encoder: the wire form of a message.
Encode(message) ==
  <<"json", message.id, message.type, message.data, message.opts>>

Garbage == <<"garbage">>

Decodable(payload) == payload[1] = "json"

\* primus.decoder
Decode(payload) ==
  [id |-> payload[2], type |-> payload[3], data |-> payload[4],
   opts |-> payload[5]]

\* ---------------------------------------------------- synchronous code
Call(s, e) == [s EXCEPT !.fx = Append(@, e)]

Throw(s, what) ==
  [s EXCEPT !.thrown = TRUE, !.fx = Append(@, [op |-> "throw", what |-> what])]

\* this.silent = value
setSilent(s, value) ==
  Call([s EXCEPT !.silent = value], [op |-> "silent", value |-> value])

\* The "safe" emit('error') of publish and dispatchMessage:
\* listeners('error').length && emit('error', err)
safeEmit(s, nListeners, err) ==
  IF nListeners > 0 THEN Call(s, [op |-> "emit", event |-> "error", err |-> err])
  ELSE s

\* publish without its test of silent.
publishAlways(s, n, data, type, opts) ==
  LET message == [id |-> id[n], data |-> data, type |-> type, opts |-> opts]
  IN  Call([s EXCEPT !.encoding = Append(@, message)],
           [op |-> "encoder", message |-> message])

\* A publish that stamps the message with a number made up for it.
publishOtherId(s, n, data, type, opts) ==
  IF s.silent THEN s
  ELSE LET message == [id |-> id[n] + Len(s.encoding) + 1, data |-> data,
                       type |-> type, opts |-> opts]
       IN  Call([s EXCEPT !.encoding = Append(@, message)],
                [op |-> "encoder", message |-> message])

\* PrimusCluster.prototype.publish, up to the call of the encoder.
publish(s, n, data, type, opts) ==
  IF s.silent THEN s
  ELSE LET message == [id |-> id[n], data |-> data, type |-> type, opts |-> opts]
       IN  Call([s EXCEPT !.encoding = Append(@, message)],
                [op |-> "encoder", message |-> message])

\* A call of publish as the caller sees it.
callPublish(s, n, data, type, opts) ==
  publish(Call(s, [op |-> "publish", data |-> data, type |-> type, opts |-> opts]),
          n, data, type, opts)

\* Code of the host that runs inside a replayed operation and calls back
\* into the relay: the room adapter holds publish (initializeAdapter).
hostCallback(s, n, reenter) ==
  IF reenter THEN callPublish(s, n, <<"joined">>, RoomType, RoomOpts) ELSE s

\* this.primus[name].apply(this.primus, args): `name` holds nothing, the
\* host's own method, or the wrapper installed by wrapMethod.
RECURSIVE apply(_, _, _, _, _, _)

\* A wrapper that calls the original before it publishes.
wrapperOriginalFirst(s, n, method, args, env, depth) ==
  LET s1 == apply(Call(s, [op |-> "wrapper", method |-> method,
                           args |-> toArray(args)]),
                  n, OriginalName(method), args, env, depth + 1)
  IN  IF s1.thrown THEN s1
      ELSE callPublish(s1, n, args, DirectType, [method |-> method])

\* A wrapper that does nothing while silent is true.
wrapperSkipWhenSilent(s, n, method, args, env, depth) ==
  IF s.silent
  THEN Call(s, [op |-> "wrapper", method |-> method, args |-> toArray(args)])
  ELSE apply(callPublish(Call(s, [op |-> "wrapper", method |-> method,
                                  args |-> toArray(args)]),
                         n, args, DirectType, [method |-> method]),
             n, OriginalName(method), args, env, depth + 1)

\* A wrapper that holds the host's own method instead of looking up the
\* __original slot when it is called.
wrapperBoundOriginal(s, n, method, args, env, depth) ==
  LET s1 == hostCallback(
              Call(callPublish(Call(s, [op |-> "wrapper", method |-> method,
                                        args |-> toArray(args)]),
                               n, args, DirectType, [method |-> method]),
                   [op |-> "original", method |-> method, args |-> toArray(args)]),
              n, env.reenter)
  IN  IF env.fails THEN Throw(s1, "HostError") ELSE s1

\* The function wrapMethod installs.
wrapper(s, n, method, args, env, depth) ==
  apply(callPublish(Call(s, [op |-> "wrapper", method |-> method,
                             args |-> toArray(args)]),
                    n, args, DirectType, [method |-> method]),
        n, OriginalName(method), args, env, depth + 1)

apply(s, n, name, args, env, depth) ==
  LET slot == primus[n][name]
  IN  IF s.thrown THEN s
      ELSE IF depth >= MaxStack THEN Throw(s, "RangeError")
      ELSE IF slot.kind = "none" THEN Throw(s, "TypeError")
      ELSE IF slot.kind = "native"
      THEN LET s1 == hostCallback(Call(s, [op |-> "original", method |-> slot.method,
                                           args |-> toArray(args)]), n, env.reenter)
           IN  IF env.fails THEN Throw(s1, "HostError") ELSE s1
      ELSE wrapper(s, n, slot.method, args, env, depth)

\* A dispatcher that replays through the entry point instead of the
\* preserved original.
primusMessageDispatcherWrapped(s, n, msg, env) ==
  apply(s, n, msg.opts.method, toArray(msg.data), env, 0)

\* primusMessageDispatcher
primusMessageDispatcher(s, n, msg, env) ==
  apply(s, n, OriginalName(msg.opts.method), toArray(msg.data), env, 0)

\* The chain primus.room(room).to(to).except(except) of one iteration.
roomChain(s, msg, room) ==
  Call(Call(Call(s, [op |-> "primus.room", room |-> room]),
            [op |-> "to", to |-> msg.opts.to]),
       [op |-> "except", except |-> msg.opts.except])

\* An iteration that applies except before to.
roomIterationExceptFirst(s, n, msg, room, env) ==
  IF env.rooms[room] = "lookup"
  THEN Throw(Call(s, [op |-> "primus.room", room |-> room]), "HostError")
  ELSE LET s0 == Call(Call(Call(s, [op |-> "primus.room", room |-> room]),
                           [op |-> "except", except |-> msg.opts.except]),
                      [op |-> "to", to |-> msg.opts.to])
           s1 == hostCallback(
                   Call(s0, [op |-> "room", room |-> room, to |-> msg.opts.to,
                             except |-> msg.opts.except, method |-> msg.opts.method,
                             args |-> toArray(msg.data)]), n, env.reenter)
       IN  IF env.rooms[room] = "op" THEN Throw(s1, "HostError") ELSE s1

\* One iteration of the _.each of roomMessageDispatcher.  env.rooms[room]
\* says what the host does for that room: "ok", "lookup" (the room lookup
\* throws) or "op" (the operation is invoked and throws).  The entry "room"
\* is the invocation of the operation on the rooms object the chain gave.
roomIteration(s, n, msg, room, env) ==
  IF env.rooms[room] = "lookup"
  THEN Throw(Call(s, [op |-> "primus.room", room |-> room]), "HostError")
  ELSE LET s1 == hostCallback(
                   Call(roomChain(s, msg, room),
                        [op |-> "room", room |-> room, to |-> msg.opts.to,
                         except |-> msg.opts.except, method |-> msg.opts.method,
                         args |-> toArray(msg.data)]), n, env.reenter)
       IN  IF env.rooms[room] = "op" THEN Throw(s1, "HostError") ELSE s1

\* The _.each of roomMessageDispatcher from its i-th element on: an
\* exception ends the loop.
RECURSIVE roomLoop(_, _, _, _, _)
roomLoop(s, n, msg, i, env) ==
  IF s.thrown \/ i > Len(msg.opts.rooms) THEN s
  ELSE roomLoop(roomIteration(s, n, msg, msg.opts.rooms[i], env), n, msg, i + 1, env)

\* roomMessageDispatcher
roomMessageDispatcher(s, n, msg, env) == roomLoop(s, n, msg, 1, env)

\* A dispatch that skips the types it has no handler for.
dispatcherCallIgnoreUnknown(s, n, msg, env) ==
  IF msg.type = RoomType
  THEN roomMessageDispatcher(Call(s, [op |-> "handler", type |-> RoomType]), n, msg, env)
  ELSE IF msg.type = DirectType
  THEN primusMessageDispatcher(Call(s, [op |-> "handler", type |-> DirectType]), n, msg, env)
  ELSE s

\* this[msg.type + 'MessageDispatcher'](msg): the prototype has
\* roomMessageDispatcher and primusMessageDispatcher; for any other type
\* the property is undefined and the call raises a TypeError.
dispatcherCall(s, n, msg, env) ==
  IF msg.type = RoomType
  THEN roomMessageDispatcher(Call(s, [op |-> "handler", type |-> RoomType]), n, msg, env)
  ELSE IF msg.type = DirectType
  THEN primusMessageDispatcher(Call(s, [op |-> "handler", type |-> DirectType]), n, msg, env)
  ELSE Throw(s, "TypeError")

\* A callDispatcher that does not enter silent mode.
callDispatcherUnguarded(s, n, msg, env) ==
  LET s1 == dispatcherCall(s, n, msg, env)
  IN  IF s1.thrown THEN s1 ELSE setSilent(s1, FALSE)

\* callDispatcher
callDispatcher(s, n, msg, env) ==
  LET s1 == dispatcherCall(setSilent(s, TRUE), n, msg, env)
  IN  IF s1.thrown THEN s1 ELSE setSilent(s1, FALSE)

\* The callback without the test of the message's id.
decoderCallbackNoEcho(s, n, payload, env) ==
  IF ~Decodable(payload) THEN safeEmit(s, env.listeners, "decode")
  ELSE LET msg == Decode(payload)
       IN  IF msg.type = Undefined THEN s
           ELSE callDispatcher(s, n, msg, env)

\* The callback with the test of the message's id inverted.
decoderCallbackOwnOnly(s, n, payload, env) ==
  IF ~Decodable(payload) THEN safeEmit(s, env.listeners, "decode")
  ELSE LET msg == Decode(payload)
       IN  IF msg.type = Undefined THEN s
           ELSE IF msg.id # id[n] THEN s
           ELSE callDispatcher(s, n, msg, env)

\* The callback without the test of the message's type.
decoderCallbackTypeless(s, n, payload, env) ==
  IF ~Decodable(payload) THEN safeEmit(s, env.listeners, "decode")
  ELSE LET msg == Decode(payload)
       IN  IF msg.id = id[n] THEN s
           ELSE callDispatcher(s, n, msg, env)

\* The callback dropping a decoder error without looking for listeners.
decoderCallbackSwallow(s, n, payload, env) ==
  IF ~Decodable(payload) THEN s
  ELSE LET msg == Decode(payload)
       IN  IF msg.type = Undefined THEN s
           ELSE IF msg.id = id[n] THEN s
           ELSE callDispatcher(s, n, msg, env)

\* The callback dispatchMessage passes to primus.decoder.
decoderCallback(s, n, payload, env) ==
  IF ~Decodable(payload) THEN safeEmit(s, env.listeners, "decode")
  ELSE LET msg == Decode(payload)
       IN  IF msg.type = Undefined THEN s
           ELSE IF msg.id = id[n] THEN s
           ELSE callDispatcher(s, n, msg, env)

\* dispatchMessage: the call of the decoder and the callback it is given.
dispatchMessage(s, n, payload, env) ==
  decoderCallback(Call(s, [op |-> "decoder", payload |-> payload]), n, payload, env)

\* The callback emitting the encoder's error whether or not anyone listens.
encoderCallbackAlwaysEmit(s, n, message, env) ==
  IF ~Encodable(message) THEN Call(s, [op |-> "emit", event |-> "error", err |-> "encode"])
  ELSE Call(s, [op |-> "pub.publish", channel |-> channel[n],
                payload |-> Encode(message)])

\* The callback reading silent again before it writes.
encoderCallbackRereadSilent(s, n, message, env) ==
  IF ~Encodable(message) THEN safeEmit(s, env.listeners, "encode")
  ELSE IF s.silent THEN s
  ELSE Call(s, [op |-> "pub.publish", channel |-> channel[n],
                payload |-> Encode(message)])

\* The callback publish passes to primus.encoder.
encoderCallback(s, n, message, env) ==
  IF ~Encodable(message) THEN safeEmit(s, env.listeners, "encode")
  ELSE Call(s, [op |-> "pub.publish", channel |-> channel[n],
                payload |-> Encode(message)])

\* A close that leaves the storage client open.
closePubSub(s, n) ==
  Call(Call(s, [op |-> "quit", client |-> "pub"]), [op |-> "quit", client |-> "sub"])

\* close: _.invoke(this.clients, 'quit')
close(s, n) ==
  Call(Call(Call(s, [op |-> "quit", client |-> ClientNames[1]]),
            [op |-> "quit", client |-> ClientNames[2]]),
       [op |-> "quit", client |-> ClientNames[3]])

\* A forwarder that emits only when somebody listens, as publish does.
forwardErrorSafe(s, n, err, env) == safeEmit(s, env.listeners, err)

\* The 'error' listener initializeClients puts on every client:
\* this.primus.emit('error', err).  env.fails: the host's emit throws (an
\* 'error' nobody listens to, a listener that throws).
forwardError(s, n, err, env) ==
  LET s1 == Call(s, [op |-> "emit", event |-> "error", err |-> err])
  IN  IF env.fails THEN Throw(s1, err) ELSE s1

\* ------------------------------------------------------------- the turns
Start(n) == [silent |-> silent[n], encoding |-> encoding[n], fx |-> <<>>,
             thrown |-> FALSE]

\* What the host does during a turn: its operation throws or not and calls
\* back or not, the number of 'error' listeners, the fate of each room.
Fates == {"ok", "lookup", "op"}
Envs == [fails : BOOLEAN, reenter : BOOLEAN, listeners : 0..MaxListeners,
         rooms : [RoomNames -> Fates]]
QuietEnv == [fails |-> FALSE, reenter |-> FALSE, listeners |-> 0,
             rooms |-> [r \in RoomNames |-> "ok"]]

\* The part of Envs that bears on the handling of a payload.
EnvsFor(payload) ==
  IF ~Decodable(payload)
  THEN {[QuietEnv EXCEPT !.listeners = nl] : nl \in 0..MaxListeners}
  ELSE IF Decode(payload).type = RoomType
  THEN {[QuietEnv EXCEPT !.reenter = re, !.rooms[r] = f] :
          re \in BOOLEAN, r \in RoomNames, f \in Fates}
  ELSE IF Decode(payload).type = DirectType
  THEN {[QuietEnv EXCEPT !.reenter = re, !.fails = fl] : re \in BOOLEAN, fl \in BOOLEAN}
  ELSE {QuietEnv}

Pending(n) == inbox[n] # <<>>
HeadMsg(n) == Decode(Head(inbox[n]))

\* The node a message names as its publisher, if it is one of the cluster.
Publisher(message) == {a \in Nodes : id[a] = message.id}

\* The arguments of the calls of the model.
ArgLists == {<<"42", v>> : v \in ArgValues}

Has(s, op) == \E i \in DOMAIN s.fx : s.fx[i].op = op
Count(s, op) == Cardinality({i \in DOMAIN s.fx : s.fx[i].op = op})

\* The turns, as functions of the state they start in.
CallTurn(n, method, args) ==
  apply(Start(n), n, method, ArgumentsObject(args), QuietEnv, 0)

AdapterTurn(n, data) == callPublish(Start(n), n, data, RoomType, RoomOpts)

EncodedTurn(n, nl) ==
  encoderCallback([Start(n) EXCEPT !.encoding = Tail(@)], n, Head(encoding[n]),
                  [QuietEnv EXCEPT !.listeners = nl])

MessageTurn(n, env) == dispatchMessage(Start(n), n, Head(inbox[n]), env)

\* The 'close' event of the host of n (the hook of the constructor).
CloseTurn(n) == close(Start(n), n)

\* The 'error' event of a client of n.
ClientErrorTurn(n, err, env) == forwardError(Start(n), n, err, env)

\* The events of the world around the cluster so far.
Inputs == calls + foreign + events

Commit(n, s) ==
  /\ silent' = [silent EXCEPT ![n] = s.silent]
  /\ encoding' = [encoding EXCEPT ![n] = s.encoding]

\* The application of node n calls primus.write or primus.send.
LocalCall(n) ==
  /\ Inputs < MaxInputs
  /\ \E method \in Methods, args \in ArgLists :
       /\ primus[n][method].kind # "none"
       /\ Commit(n, CallTurn(n, method, args))
  /\ calls' = calls + 1
  /\ UNCHANGED <<id, channel, primus, inbox, written, replayed, foreign>>
  /\ UNCHANGED hostVars

\* The room adapter of node n calls the publish it was constructed with.
AdapterPublish(n) ==
  /\ Inputs < MaxInputs
  /\ Commit(n, AdapterTurn(n, <<"42", "hello">>))
  /\ calls' = calls + 1
  /\ UNCHANGED <<id, channel, primus, inbox, written, replayed, foreign>>
  /\ UNCHANGED hostVars

\* The transport: a payload published on a channel reaches the subscribe
\* handle of every node subscribed to it (initializeMessageDispatcher), the
\* publisher included.  A client that was told to quit has left: it takes
\* no payload to the channel and brings none from it.
Subscribers(ch) == {m \in Nodes : channel[m] = ch /\ quits[m].sub = 0}

Deliver(ch, payload) ==
  [m \in Nodes |-> IF m \in Subscribers(ch) THEN Append(inbox[m], payload)
                   ELSE inbox[m]]

\* The encoder of node n calls back.
EncoderCallback(n) ==
  /\ encoding[n] # <<>>
  /\ \E nl \in 0..MaxListeners :
       LET s == EncodedTurn(n, nl)
       IN  /\ Commit(n, s)
           /\ inbox' = IF Has(s, "pub.publish") /\ quits[n].pub = 0
                       THEN Deliver(channel[n], Encode(Head(encoding[n]))) ELSE inbox
           /\ written' = [written EXCEPT ![n] =
                IF quits[n].pub = 0 THEN @ + Count(s, "pub.publish") ELSE @]
  /\ UNCHANGED <<id, channel, primus, calls, replayed, foreign>>
  /\ UNCHANGED hostVars

\* The turn of a 'message' event of clients.sub of node n, the host behaving
\* as env says.
Dispatch(n, env) ==
  /\ LET s == MessageTurn(n, env)
     IN  /\ Commit(n, s)
         /\ replayed' = [replayed EXCEPT ![n] =
              [a \in Nodes |->
                 IF Has(s, "handler") /\ a \in Publisher(HeadMsg(n))
                 THEN @[a] + Count(s, "handler") ELSE @[a]]]
  /\ inbox' = [inbox EXCEPT ![n] = Tail(@)]
  /\ UNCHANGED <<id, channel, primus, calls, written, foreign, quits, events>>

\* The 'message' event of clients.sub of node n.
OnMessage(n) ==
  /\ inbox[n] # <<>>
  /\ \E env \in EnvsFor(Head(inbox[n])) : Dispatch(n, env)
  /\ UNCHANGED deferred

\* The same, and the host operation the replay invokes leaves a callback for
\* a later turn of the event loop (a timer, an acknowledgement).
OnMessageDeferring(n) ==
  /\ inbox[n] # <<>>
  /\ \/ Has(MessageTurn(n, QuietEnv), "original")
     \/ Has(MessageTurn(n, QuietEnv), "room")
  /\ Dispatch(n, QuietEnv)
  /\ deferred' = [deferred EXCEPT ![n] = @ + 1]

\* The publish call such a callback makes: the room adapter's.
DeferredTurn(n) == callPublish(Start(n), n, <<"joined">>, RoomType, RoomOpts)

\* A callback left by a replayed operation runs and calls publish.
DeferredPublish(n) ==
  /\ deferred[n] > 0
  /\ Inputs < MaxInputs
  /\ Commit(n, DeferredTurn(n))
  /\ deferred' = [deferred EXCEPT ![n] = @ - 1]
  /\ calls' = calls + 1
  /\ UNCHANGED <<id, channel, primus, inbox, written, replayed, foreign, quits,
                 events>>

\* Payloads that publishers outside the cluster put on the channel: bytes
\* that do not decode, a message without a type (under an id of its own and
\* under the id of a node), a message of a type this version does not know.
ForeignPayloads ==
  {Garbage,
   Encode([id |-> ForeignId, data |-> <<"x">>, type |-> Undefined,
           opts |-> [method |-> "write"]]),
   Encode([id |-> id[1], data |-> <<"x">>, type |-> Undefined,
           opts |-> [method |-> "write"]]),
   Encode([id |-> ForeignId, data |-> <<"x">>, type |-> "presence",
           opts |-> [method |-> "write"]])}

Inject ==
  /\ Inputs < MaxInputs
  /\ \E ch \in {channel[n] : n \in Nodes}, payload \in ForeignPayloads :
       inbox' = Deliver(ch, payload)
  /\ foreign' = foreign + 1
  /\ UNCHANGED <<id, channel, silent, primus, encoding, calls, written,
                 replayed>>
  /\ UNCHANGED hostVars

\* The host of n emits 'close'.
Close(n) ==
  /\ Inputs < MaxInputs
  /\ LET s == CloseTurn(n)
     IN  /\ Commit(n, s)
         /\ quits' = [quits EXCEPT ![n] =
              [c \in DOMAIN @ |->
                 @[c] + Cardinality({i \in DOMAIN s.fx :
                                      s.fx[i] = [op |-> "quit", client |-> c]})]]
  /\ events' = events + 1
  /\ UNCHANGED <<id, channel, primus, inbox, calls, written, replayed, foreign,
                 deferred>>

\* A client of n emits 'error'.
ClientError(n) ==
  /\ Inputs < MaxInputs
  /\ \E err \in ClientErrors, fl \in BOOLEAN, nl \in 0..MaxListeners :
       Commit(n, ClientErrorTurn(n, err, [QuietEnv EXCEPT !.fails = fl,
                                                         !.listeners = nl]))
  /\ events' = events + 1
  /\ UNCHANGED <<id, channel, primus, inbox, calls, written, replayed, foreign,
                 quits, deferred>>

Init ==
  /\ id = [n \in Nodes |-> n]
  /\ channel = [n \in Nodes |-> DefaultChannel]
  /\ silent = [n \in Nodes |-> FALSE]
  /\ primus = [n \in Nodes |-> wrapPrimusMethods(BareHost(Host(n)))]
  /\ encoding = [n \in Nodes |-> <<>>]
  /\ inbox = [n \in Nodes |-> <<>>]
  /\ calls = 0
  /\ written = [a \in Nodes |-> 0]
  /\ replayed = [n \in Nodes |-> [a \in Nodes |-> 0]]
  /\ foreign = 0
  /\ quits = [n \in Nodes |-> [c \in {ClientNames[i] : i \in DOMAIN ClientNames} |-> 0]]
  /\ events = 0
  /\ deferred = [n \in Nodes |-> 0]

Next ==
  \/ \E n \in Nodes : LocalCall(n)
  \/ \E n \in Nodes : AdapterPublish(n)
  \/ \E n \in Nodes : EncoderCallback(n)
  \/ \E n \in Nodes : OnMessage(n)
  \/ Inject
  \/ \E n \in Nodes : Close(n)
  \/ \E n \in Nodes : ClientError(n)

Spec == Init /\ [][Next]_vars

\* The cluster on a channel that only its nodes publish on, with an event
\* loop that eventually runs every pending callback and 'message' event.
MemberNext ==
  \/ \E n \in Nodes : LocalCall(n)
  \/ \E n \in Nodes : AdapterPublish(n)
  \/ \E n \in Nodes : EncoderCallback(n)
  \/ \E n \in Nodes : OnMessage(n)

\* wrapPrimusMethods runs once more on the host of n (the plugin is attached
\* a second time).
WrapAgain(n) ==
  /\ Inputs < MaxInputs
  /\ primus' = [primus EXCEPT ![n] = wrapPrimusMethods(@)]
  /\ events' = events + 1
  /\ UNCHANGED <<id, channel, silent, encoding, inbox, calls, written, replayed,
                 foreign, quits, deferred>>

RewrapNext ==
  \/ Next
  \/ \E n \in Nodes : WrapAgain(n)

RewrapSpec == Init /\ [][RewrapNext]_vars

\* The cluster on hosts whose replayed operations leave callbacks behind.
DeferNext ==
  \/ Next
  \/ \E n \in Nodes : OnMessageDeferring(n)
  \/ \E n \in Nodes : DeferredPublish(n)

DeferSpec == Init /\ [][DeferNext]_vars

FairSpec ==
  /\ Init /\ [][MemberNext]_vars
  /\ \A n \in Nodes : WF_vars(EncoderCallback(n)) /\ WF_vars(OnMessage(n))

\* ------------------------------------------------------------ properties
\* The head of n's inbox decodes to a typed message of another publisher:
\* the next 'message' turn of n calls callDispatcher with it.
FromOther(n) ==
  /\ Pending(n)
  /\ Decodable(Head(inbox[n]))
  /\ HeadMsg(n).type # Undefined
  /\ HeadMsg(n).id # id[n]

Replayable(n) == FromOther(n) /\ HeadMsg(n).type \in {DirectType, RoomType}

\* C1 (guard bracketing): for every invocation of callDispatcher on a
\* message from another node, silent is false before the dispatch begins and
\* false again after callDispatcher returned or propagated a failure.
GuardBracketing ==
  \A n \in Nodes : Replayable(n) =>
    \A env \in EnvsFor(Head(inbox[n])) :
      /\ silent[n] = FALSE
      /\ MessageTurn(n, env).silent = FALSE

\* C2 (no loop): while silent is true publish is a no-op, so a publish call
\* made by a replay handler during callDispatcher calls no encoder and
\* queues nothing for the channel.
NoLoop ==
  \A n \in Nodes :
    /\ silent[n] =>
         \A args \in ArgLists :
           /\ AdapterTurn(n, args).encoding = encoding[n]
           /\ ~Has(AdapterTurn(n, args), "encoder")
           /\ \A m \in Methods : primus[n][m].kind # "none" =>
                /\ ~Has(CallTurn(n, m, args), "encoder")
                /\ CallTurn(n, m, args).encoding = encoding[n]
    /\ FromOther(n) =>
         \A env \in EnvsFor(Head(inbox[n])) :
           /\ ~Has(MessageTurn(n, env), "encoder")
           /\ ~Has(MessageTurn(n, env), "pub.publish")
           /\ MessageTurn(n, env).encoding = encoding[n]

\* A replay is about to run whose handler calls publish.
NoLoopWitness ==
  \E n \in Nodes :
    /\ Replayable(n)
    /\ \E env \in EnvsFor(Head(inbox[n])) :
         env.reenter /\ Has(MessageTurn(n, env), "publish")

\* C3 (echo suppression): a message whose id is the receiver's own id makes
\* dispatchMessage do nothing beyond decoding it: no handler, no assignment
\* to silent, no publish, no error; a handler only runs for messages of
\* another id.
EchoSuppression ==
  \A n \in Nodes : (Pending(n) /\ Decodable(Head(inbox[n]))) =>
    \A env \in EnvsFor(Head(inbox[n])) :
      LET s == MessageTurn(n, env)
      IN  /\ HeadMsg(n).id = id[n] =>
                /\ s.fx = <<[op |-> "decoder", payload |-> Head(inbox[n])]>>
                /\ s.silent = silent[n]
                /\ s.encoding = encoding[n]
                /\ ~s.thrown
          /\ Has(s, "handler") => HeadMsg(n).id # id[n]

\* A node is about to receive its own replayable message.
EchoWitness ==
  \E n \in Nodes :
    /\ Pending(n) /\ Decodable(Head(inbox[n]))
    /\ HeadMsg(n).id = id[n]
    /\ HeadMsg(n).type \in {DirectType, RoomType}
    /\ written[n] >= 1

\* The payloads of node a that wait in the inbox of node n.
InFlight(n, a) ==
  Cardinality({i \in DOMAIN inbox[n] :
                 Decodable(inbox[n][i]) /\ Decode(inbox[n][i]).id = id[a]})

\* Every message on the channel has been handed to a replay handler on
\* every node but its publisher.
Settled ==
  \A n \in Nodes, a \in Nodes : n # a => replayed[n][a] = written[a]

RoomFailureIsolation ==
  \A n \in Nodes : (FromOther(n) /\ HeadMsg(n).type = RoomType) =>
    \A env \in EnvsFor(Head(inbox[n])) :
      \A i \in DOMAIN HeadMsg(n).opts.rooms :
        env.rooms[HeadMsg(n).opts.rooms[i]] # "lookup" =>
          \E j \in DOMAIN MessageTurn(n, env).fx :
            /\ MessageTurn(n, env).fx[j].op = "room"
            /\ MessageTurn(n, env).fx[j].room = HeadMsg(n).opts.rooms[i]

\* The direct message at the head of n's inbox is replayed as the claim
\* says: one call of the original, with the arguments in order, and no call
\* of the wrapper.
FaithfulDirectReplay(n, env) ==
  LET s == MessageTurn(n, env)
      msg == HeadMsg(n)
  IN  /\ Count(s, "original") = 1
      /\ \A j \in DOMAIN s.fx : s.fx[j].op = "original" =>
           /\ s.fx[j].method = msg.opts.method
           /\ s.fx[j].args = toArray(msg.data)
      /\ ~Has(s, "wrapper")

DirectFromOther(n) ==
  /\ FromOther(n)
  /\ HeadMsg(n).type = DirectType
  /\ HeadMsg(n).opts.method \in Methods

\* C6 as stated (direct replay fidelity): every direct message of another
\* node naming write or send gets the preserved original invoked once with
\* the recorded arguments.
DirectReplayFidelityAsStated ==
  \A n \in Nodes : DirectFromOther(n) =>
    \A env \in EnvsFor(Head(inbox[n])) : FaithfulDirectReplay(n, env)

\* C6 amended: the same on a node whose host had the method when it was
\* wrapped; on a node without it the replay raises a TypeError and invokes
\* nothing.
DirectReplayFidelity ==
  \A n \in Nodes : DirectFromOther(n) =>
    \A env \in EnvsFor(Head(inbox[n])) :
      IF primus[n][OriginalName(HeadMsg(n).opts.method)].kind # "none"
      THEN FaithfulDirectReplay(n, env)
      ELSE /\ MessageTurn(n, env).thrown
           /\ ~Has(MessageTurn(n, env), "original")
           /\ ~Has(MessageTurn(n, env), "wrapper")

\* A direct message is about to be replayed on a node that has the method.
DirectReplayWitness ==
  \E n \in Nodes :
    /\ DirectFromOther(n)
    /\ primus[n][OriginalName(HeadMsg(n).opts.method)].kind # "none"
    /\ Count(MessageTurn(n, QuietEnv), "original") = 1

\* C7 (interception order): a call of a wrapped entry point while silent is
\* false calls publish once with the arguments, the direct type and the
\* method's name, which hands one message to the encoder, and then calls the
\* preserved original once with the same arguments.
InterceptionOrder ==
  \A n \in Nodes, m \in Methods, args \in ArgLists :
    (primus[n][m].kind = "wrapper" /\ ~silent[n]) =>
          CallTurn(n, m, args).fx =
            << [op |-> "wrapper", method |-> m, args |-> args],
               [op |-> "publish", data |-> ArgumentsObject(args),
                type |-> DirectType, opts |-> [method |-> m]],
               [op |-> "encoder",
                message |-> [id |-> id[n], data |-> ArgumentsObject(args),
                             type |-> DirectType, opts |-> [method |-> m]]],
               [op |-> "original", method |-> m, args |-> args] >>

\* A wrapped entry point was called and its message waits for the encoder.
InterceptionWitness ==
  \E n \in Nodes :
    /\ encoding[n] # <<>>
    /\ Head(encoding[n]).type = DirectType
    /\ Head(encoding[n]).opts.method = "send"
    /\ Head(encoding[n]).id = id[n]
    /\ ~silent[n]

EncodeFailure ==
  \A n \in Nodes : encoding[n] # <<>> =>
    \A nl \in 0..MaxListeners :
      LET s == EncodedTurn(n, nl)
          message == Head(encoding[n])
      IN  IF Encodable(message)
          THEN s.fx = <<[op |-> "pub.publish", channel |-> channel[n],
                         payload |-> Encode(message)]>>
          ELSE /\ ~Has(s, "pub.publish")
               /\ ~s.thrown
               /\ Has(s, "emit") <=> nl >= 1
               /\ s.fx = IF nl >= 1
                         THEN <<[op |-> "emit", event |-> "error", err |-> "encode"]>>
                         ELSE <<>>

\* The encoder is about to fail on a message.
EncodeFailureWitness ==
  \E n \in Nodes : encoding[n] # <<>> /\ ~Encodable(Head(encoding[n]))

\* C10 (decode failure): when the decoder fails the message is discarded:
\* no handler runs, silent is not touched, nothing is thrown, and an error
\* event is emitted exactly when an error listener is registered.
DecodeFailure ==
  \A n \in Nodes : (Pending(n) /\ ~Decodable(Head(inbox[n]))) =>
    \A env \in EnvsFor(Head(inbox[n])) :
      LET s == MessageTurn(n, env)
      IN  /\ ~Has(s, "handler")
          /\ ~Has(s, "silent")
          /\ s.silent = silent[n]
          /\ ~s.thrown
          /\ s.encoding = encoding[n]
          /\ Has(s, "emit") <=> env.listeners >= 1
          /\ Count(s, "emit") <= 1

\* A payload that does not decode is about to be dispatched.
DecodeFailureWitness ==
  \E n \in Nodes : Pending(n) /\ ~Decodable(Head(inbox[n])) /\ ~silent[n]

\* C11 (missing type): a decoded message without a type is ignored whatever
\* its id: the turn does nothing after the call of the decoder, so no handler
\* runs, nothing is emitted or thrown, and silent and the encoder queue are
\* as before.
MissingType ==
  \A n \in Nodes :
    (Pending(n) /\ Decodable(Head(inbox[n])) /\ HeadMsg(n).type = Undefined) =>
      \A env \in Envs :
        LET s == MessageTurn(n, env)
        IN  /\ s.fx = <<[op |-> "decoder", payload |-> Head(inbox[n])]>>
            /\ s.silent = silent[n]
            /\ s.encoding = encoding[n]
            /\ ~s.thrown

\* Messages without a type are about to be dispatched on a node whose id
\* they carry and on a node whose id they do not carry.
MissingTypeWitness ==
  /\ \E n \in Nodes :
       /\ Pending(n) /\ Decodable(Head(inbox[n]))
       /\ HeadMsg(n).type = Undefined /\ HeadMsg(n).id = id[n]
  /\ \E n \in Nodes :
       /\ Pending(n) /\ Decodable(Head(inbox[n]))
       /\ HeadMsg(n).type = Undefined /\ HeadMsg(n).id # id[n]

\* C12 (shutdown): the turn the host's 'close' event starts calls quit on
\* the publish, the subscribe and the storage client, once each, and nothing
\* else: it does not look at the encoder calls and inbound payloads that are
\* still pending and leaves them as they are.
Shutdown ==
  \A n \in Nodes :
    /\ CloseTurn(n).fx = << [op |-> "quit", client |-> "pub"],
                            [op |-> "quit", client |-> "sub"],
                            [op |-> "quit", client |-> "storage"] >>
    /\ ~CloseTurn(n).thrown
    /\ CloseTurn(n).encoding = encoding[n]
    /\ CloseTurn(n).silent = silent[n]
    /\ quits[n].pub = quits[n].sub /\ quits[n].sub = quits[n].storage

\* A node was closed while an encoder call or an inbound payload of another
\* node was pending on it, and it still is.
ShutdownWitness ==
  \E n \in Nodes :
    /\ quits[n].pub = 1 /\ quits[n].sub = 1 /\ quits[n].storage = 1
    /\ encoding[n] # <<>> \/ FromOther(n)

RECURSIVE Sum(_, _)
Sum(f, S) ==
  IF S = {} THEN 0
  ELSE LET x == CHOOSE y \in S : TRUE IN f[x] + Sum(f, S \ {x})

\* The messages the nodes have handed to their encoders or written to the
\* channel.
Relayed == Sum(written, Nodes) + Sum([n \in Nodes |-> Len(encoding[n])], Nodes)

\* C13 (no amplification): the messages the nodes have put on the channel or
\* are about to are never more than the local broadcast calls made; a call
\* made while silent is false adds one, and the replay of a message of
\* another node adds none, whatever the replayed operation does.
NoAmplification ==
  /\ Relayed <= calls
  /\ \A n \in Nodes, m \in Methods, args \in ArgLists :
       (primus[n][m].kind = "wrapper" /\ ~silent[n]) =>
         Len(CallTurn(n, m, args).encoding) = Len(encoding[n]) + 1
  /\ \A n \in Nodes : FromOther(n) =>
       \A env \in EnvsFor(Head(inbox[n])) :
         Len(MessageTurn(n, env).encoding) = Len(encoding[n])

\* Two local calls have put two messages on the channel, every other node
\* has replayed them, and nothing else is on its way.
NoAmplificationWitness ==
  /\ calls >= 2
  /\ Sum(written, Nodes) = calls
  /\ \A n \in Nodes : inbox[n] = <<>> /\ encoding[n] = <<>>
  /\ \A n \in Nodes, a \in Nodes : n # a => replayed[n][a] = written[a]

\* The messages a turn hands to the encoder.
EncoderCalls(s) == {s.fx[j].message : j \in {i \in DOMAIN s.fx : s.fx[i].op = "encoder"}}

\* C14 (stable identity and channel): id and channel are what the
\* constructor made them; every message a node hands to its encoder, in
\* a call, from the adapter or earlier, carries the node's id, and every
\* write goes to the node's channel, the one it subscribed to.
StableIdentity ==
  /\ id = [n \in Nodes |-> n]
  /\ channel = [n \in Nodes |-> DefaultChannel]
  /\ \A n \in Nodes :
       /\ \A i \in DOMAIN encoding[n] : encoding[n][i].id = id[n]
       /\ \A args \in ArgLists :
            /\ \A message \in EncoderCalls(AdapterTurn(n, args)) : message.id = id[n]
            /\ \A m \in Methods : primus[n][m].kind # "none" =>
                 \A message \in EncoderCalls(CallTurn(n, m, args)) : message.id = id[n]
       /\ encoding[n] # <<>> =>
            \A nl \in 0..MaxListeners :
              \A j \in DOMAIN EncodedTurn(n, nl).fx :
                EncodedTurn(n, nl).fx[j].op = "pub.publish" =>
                  /\ EncodedTurn(n, nl).fx[j].channel = channel[n]
                  /\ n \in Subscribers(channel[n]) \/ quits[n].sub > 0
                  /\ Decode(EncodedTurn(n, nl).fx[j].payload).id = id[n]

\* A node has written a message to the channel and is about to write the
\* next one.
StableIdentityWitness ==
  \E n \in Nodes :
    /\ written[n] >= 1
    /\ encoding[n] # <<>> /\ Encodable(Head(encoding[n]))

\* The entry point m of n was wrapped a second time: the slot of the
\* preserved original holds a wrapper.
DoubleWrapped(n, m) ==
  /\ primus[n][m].kind = "wrapper"
  /\ primus[n][OriginalName(m)].kind = "wrapper"

\* C15 as stated (double wrapping): a call of an entry point wrapped twice
\* publishes two times and completes with the original invoked.
DoubleWrapAsStated ==
  \A n \in Nodes, m \in Methods, args \in ArgLists :
    (DoubleWrapped(n, m) /\ ~silent[n]) =>
      /\ Count(CallTurn(n, m, args), "publish") = 2
      /\ Count(CallTurn(n, m, args), "original") = 1
      /\ ~CallTurn(n, m, args).thrown

\* C15 amended: a call of an entry point wrapped twice publishes once for
\* every activation of the wrapper, each of which calls the wrapper again,
\* until the call stack is exhausted: it ends in a RangeError, with a
\* message handed to the encoder per activation and the host's own method
\* never invoked.
DoubleWrap ==
  \A n \in Nodes, m \in Methods, args \in ArgLists :
    (DoubleWrapped(n, m) /\ ~silent[n]) =>
      LET s == CallTurn(n, m, args)
      IN  /\ s.thrown
          /\ s.fx[Len(s.fx)] = [op |-> "throw", what |-> "RangeError"]
          /\ Count(s, "original") = 0
          /\ Count(s, "wrapper") = MaxStack
          /\ Count(s, "publish") = MaxStack
          /\ Len(s.encoding) = Len(encoding[n]) + MaxStack

\* An entry point wrapped twice was called.
DoubleWrapWitness ==
  \E n \in Nodes, m \in Methods :
    /\ DoubleWrapped(n, m)
    /\ ~silent[n]
    /\ Len(encoding[n]) >= 2
    /\ \A i \in DOMAIN encoding[n] :
         encoding[n][i].type = DirectType /\ encoding[n][i].opts.method = m

IsRoomStep(e) == e.op \in {"primus.room", "to", "except", "room"}

\* What the claim says the handler does to the host for a room message.
RoomSteps(msg) ==
  [k \in 1..(4 * Len(msg.opts.rooms)) |->
     LET room == msg.opts.rooms[((k - 1) \div 4) + 1]
     IN  CASE (k - 1) % 4 = 0 -> [op |-> "primus.room", room |-> room]
           [] (k - 1) % 4 = 1 -> [op |-> "to", to |-> msg.opts.to]
           [] (k - 1) % 4 = 2 -> [op |-> "except", except |-> msg.opts.except]
           [] OTHER -> [op |-> "room", room |-> room, to |-> msg.opts.to,
                        except |-> msg.opts.except, method |-> msg.opts.method,
                        args |-> toArray(msg.data)]]

\* C16 (room replay steps): when no room fails, the replay of a room message
\* of another node goes through opts.rooms in order and for each name looks
\* the room up, applies to(opts.to), then except(opts.except), and invokes
\* the operation opts.method once with the elements of data in order.
RoomReplaySteps ==
  \A n \in Nodes : (FromOther(n) /\ HeadMsg(n).type = RoomType) =>
    \A env \in EnvsFor(Head(inbox[n])) :
      (\A r \in RoomNames : env.rooms[r] = "ok") =>
        /\ SelectSeq(MessageTurn(n, env).fx, IsRoomStep) = RoomSteps(HeadMsg(n))
        /\ ~MessageTurn(n, env).thrown

\* A room message naming two rooms is about to be replayed.
RoomReplayWitness ==
  \E n \in Nodes :
    /\ FromOther(n) /\ HeadMsg(n).type = RoomType
    /\ Len(HeadMsg(n).opts.rooms) = 2
    /\ Count(MessageTurn(n, QuietEnv), "room") = 2

\* C18 (local effect): a call of a wrapped entry point invokes the preserved
\* original once with the arguments of the call, whether silent is true or
\* false and whether or not the encoder can encode them; the encoder's
\* callback invokes nothing of the host but the write or the error event.
LocalEffect ==
  /\ \A n \in Nodes, m \in Methods, args \in ArgLists :
       primus[n][m].kind = "wrapper" =>
         LET s == CallTurn(n, m, args)
         IN  /\ Count(s, "original") = 1
             /\ \A j \in DOMAIN s.fx : s.fx[j].op = "original" =>
                  s.fx[j].method = m /\ s.fx[j].args = args
             /\ ~s.thrown
  /\ \A n \in Nodes : encoding[n] # <<>> =>
       \A nl \in 0..MaxListeners : ~Has(EncodedTurn(n, nl), "original")

\* A node whose silent is true can be called, and a call whose arguments
\* the encoder cannot encode was made.
LocalEffectWitness ==
  /\ \E n \in Nodes : silent[n] /\ primus[n]["write"].kind = "wrapper"
  /\ \E n \in Nodes : encoding[n] # <<>> /\ ~Encodable(Head(encoding[n]))

\* C19 (guard covers the synchronous extent only): a publish call made by a
\* callback a replayed operation left for a later event is made with silent
\* false and hands the encoder a message carrying the node's own id.
DeferredPublishRelayed ==
  \A n \in Nodes : deferred[n] > 0 =>
    /\ ~silent[n]
    /\ Count(DeferredTurn(n), "encoder") = 1
    /\ \A message \in EncoderCalls(DeferredTurn(n)) : message.id = id[n]

\* C20 (suppression is decided at the call of publish): a message waiting
\* for its encoder callback is written once when the callback succeeds,
\* whatever silent is by then: the callback neither reads nor assigns silent,
\* and the replay of an inbound message in between leaves the waiting
\* messages as they are.
PublishTimeDecision ==
  \A n \in Nodes :
    /\ (encoding[n] # <<>> /\ Encodable(Head(encoding[n]))) =>
         \A nl \in 0..MaxListeners :
           /\ Count(EncodedTurn(n, nl), "pub.publish") = 1
           /\ ~Has(EncodedTurn(n, nl), "silent")
           /\ EncodedTurn(n, nl).silent = silent[n]
           /\ EncodedTurn(n, nl).encoding = Tail(encoding[n])
    /\ Pending(n) =>
         \A env \in EnvsFor(Head(inbox[n])) :
           \A i \in DOMAIN encoding[n] :
             /\ i \in DOMAIN MessageTurn(n, env).encoding
             /\ MessageTurn(n, env).encoding[i] = encoding[n][i]

\* A message handed to the encoder while silent was false waits for its
\* callback on a node whose silent is true by now.
PublishTimeWitness ==
  \E n \in Nodes :
    /\ encoding[n] # <<>> /\ Encodable(Head(encoding[n]))
    /\ silent[n]
====
